---- MODULE Spec2Model ----
(***************************************************************************)
(* cw20-ics20: the IBC entry points of the ICS20 transfer contract         *)
(* (contracts/cw20-ics20/src/ibc.rs): the channel handshake, the escrow    *)
(* ledger CHANNEL_STATE keyed by (channel id, denom), the channel registry *)
(* CHANNEL_INFO keyed by channel id, and the packet receive / ack /        *)
(* timeout handlers.  Every entry point is one atomic call of the host.    *)
(***************************************************************************)
EXTENDS Integers, Sequences, FiniteSets, TLC

\* released is a history variable: per ledger key, the value that the
\* transfers of successful receives have released so far
VARIABLES CHANNEL_STATE, CHANNEL_INFO, call, pre, released

vars == <<CHANNEL_STATE, CHANNEL_INFO, call, pre, released>>

(***************************************************************************)
(* Bounds of the model.                                                    *)
(***************************************************************************)
\* packet amounts range over 0..MaxAmount (u64 in the code)
MaxAmount == 2
\* the sum of total_sent over all ledger entries stays <= MaxSent (u128 counters in the code)
MaxSent == 2
\* the width in bits of the ledger counters, scaled down from 128 so that
\* their largest value is within reach
CounterBits == 2

(***************************************************************************)
(* Option and Result values.                                               *)
(***************************************************************************)
None == <<>>
Some(x) == <<x>>

Ok(v) == [tag |-> "Ok", val |-> v]
Err(e) == [tag |-> "Err", err |-> e]
\* a panic aborts the call: the host reports a failure and commits nothing
Panic == [tag |-> "Panic"]

IsOk(r) == r.tag = "Ok"
IsErr(r) == r.tag = "Err"

\* ContractError variants used by ibc.rs
InvalidIbcVersion(v) == [kind |-> "InvalidIbcVersion", version |-> v]
OnlyOrderedChannel == [kind |-> "OnlyOrderedChannel"]
InsufficientFunds == [kind |-> "InsufficientFunds"]
\* ContractError::Std(StdError), what `?` makes of a StdError
Std(e) == [kind |-> "Std", source |-> e]

\* StdError values
ParseErr(target) == [std |-> "ParseErr", target |-> target]
Underflow(minuend, subtrahend) ==
    [std |-> "Underflow", minuend |-> minuend, subtrahend |-> subtrahend]

(***************************************************************************)
(* Constants of the contract.                                              *)
(***************************************************************************)
ICS20_VERSION == "ics20-1"
ICS20_ORDERING == "Unordered"

(***************************************************************************)
(* Wire values.  A denomination is a sequence of characters (its prefix is *)
(* inspected); every other text, and every JSON document, is a string.     *)
(* Binary data is a sequence of bytes (0..255).                            *)
(***************************************************************************)
Channels == {"channel-3", "channel-7"}
\* a native denomination and a cw20 one ("cw20:" followed by the token contract address)
Denoms == {<<"a", "t", "o", "m">>, <<"c", "w", "2", "0", ":", "t", "k", "n">>}
Senders == {"S"}
Receivers == {"R"}
Versions == {ICS20_VERSION, "ics20-2"}
Orders == {"Unordered", "Ordered"}
RemoteEndpoints ==
    {[port_id |-> "transfer", channel_id |-> "channel-3"],
     [port_id |-> "transfer", channel_id |-> "channel-1234"]}
Connections == {"connection-2"}
ContractPort == "wasm.contract"

\* struct Ics20Packet { denom, amount: u64, sender, receiver }
Ics20Packet == [denom : Denoms, amount : 0..MaxAmount, sender : Senders, receiver : Receivers]

SuccessMarker == <<49>>
BadCoin == <<"b", "a", "d", " ", "c", "o", "i", "n">>
\* enum Ics20Ack { Result(Binary), Error(String) }
Ics20Ack ==
    [variant : {"Result"}, data : {SuccessMarker}] \cup
    [variant : {"Error"}, msg : {BadCoin}]

RECURSIVE Text(_)
\* the string a sequence of characters spells
Text(chars) == IF chars = <<>> THEN "" ELSE Head(chars) \o Text(Tail(chars))

Digits == <<"0", "1", "2", "3", "4", "5", "6", "7", "8", "9">>

RECURSIVE Decimal(_)
\* the decimal digits of a natural number
Decimal(n) ==
    IF n < 10 THEN Digits[n + 1] ELSE Decimal(n \div 10) \o Digits[(n % 10) + 1]

\* a JSON string (the model's strings hold no character that needs escaping)
JsonString(s) == "\"" \o s \o "\""

Base64Alphabet ==
    <<"A", "B", "C", "D", "E", "F", "G", "H", "I", "J", "K", "L", "M", "N", "O", "P",
      "Q", "R", "S", "T", "U", "V", "W", "X", "Y", "Z", "a", "b", "c", "d", "e", "f",
      "g", "h", "i", "j", "k", "l", "m", "n", "o", "p", "q", "r", "s", "t", "u", "v",
      "w", "x", "y", "z", "0", "1", "2", "3", "4", "5", "6", "7", "8", "9", "+", "/">>

B64(i) == Base64Alphabet[i + 1]

RECURSIVE Base64(_)
\* Binary serializes as standard base64 with padding (a sequence of characters)
Base64(b) ==
    IF Len(b) = 0 THEN <<>>
    ELSE IF Len(b) = 1 THEN
        <<B64(b[1] \div 4), B64((b[1] % 4) * 16), "=", "=">>
    ELSE IF Len(b) = 2 THEN
        <<B64(b[1] \div 4), B64((b[1] % 4) * 16 + (b[2] \div 16)),
          B64((b[2] % 16) * 4), "=">>
    ELSE
        <<B64(b[1] \div 4), B64((b[1] % 4) * 16 + (b[2] \div 16)),
          B64((b[2] % 16) * 4 + (b[3] \div 64)), B64(b[3] % 64)>>
        \o Base64(SubSeq(b, 4, Len(b)))

\* the 6-bit value of a base64 character, -1 if it is none
Base64Value(ch) ==
    IF \E i \in 0..63 : B64(i) = ch THEN CHOOSE i \in 0..63 : B64(i) = ch ELSE -1

RECURSIVE Base64Decode(_)
\* Binary deserializes from standard base64: whole quads, canonical padding
Base64Decode(c) ==
    IF Len(c) = 0 THEN Ok(<<>>)
    ELSE IF Len(c) < 4 THEN Err(ParseErr("Binary"))
    ELSE LET v1 == Base64Value(c[1])
             v2 == Base64Value(c[2])
             v3 == Base64Value(c[3])
             v4 == Base64Value(c[4])
             rest == SubSeq(c, 5, Len(c))
             b1 == v1 * 4 + (v2 \div 16)
             b2 == (v2 % 16) * 16 + (v3 \div 4)
             b3 == (v3 % 4) * 64 + v4
         IN IF v1 < 0 \/ v2 < 0 THEN Err(ParseErr("Binary"))
            ELSE IF c[3] = "=" THEN
                IF c[4] = "=" /\ rest = <<>> /\ v2 % 16 = 0
                THEN Ok(<<b1>>) ELSE Err(ParseErr("Binary"))
            ELSE IF v3 < 0 THEN Err(ParseErr("Binary"))
            ELSE IF c[4] = "=" THEN
                IF rest = <<>> /\ v3 % 4 = 0
                THEN Ok(<<b1, b2>>) ELSE Err(ParseErr("Binary"))
            ELSE IF v4 < 0 THEN Err(ParseErr("Binary"))
            ELSE LET tail == Base64Decode(rest)
                 IN IF IsErr(tail) THEN tail ELSE Ok(<<b1, b2, b3>> \o tail.val)

\* to_binary(&Ics20Packet): the fields in declaration order
Ics20Packet_to_binary(p) ==
    "{" \o JsonString("denom") \o ":" \o JsonString(Text(p.denom))
    \o "," \o JsonString("amount") \o ":" \o Decimal(p.amount)
    \o "," \o JsonString("sender") \o ":" \o JsonString(p.sender)
    \o "," \o JsonString("receiver") \o ":" \o JsonString(p.receiver) \o "}"

ResultPrefix == <<"{", "\"", "r", "e", "s", "u", "l", "t", "\"", ":", "\"">>
ErrorPrefix == <<"{", "\"", "e", "r", "r", "o", "r", "\"", ":", "\"">>
StringSuffix == <<"\"", "}">>

\* faulty variant: the variant names are not renamed to snake_case
Ics20Ack_to_vec_no_rename(a) ==
    IF a.variant = "Result"
    THEN <<"{", "\"", "R", "e", "s", "u", "l", "t", "\"", ":", "\"">>
         \o Base64(a.data) \o StringSuffix
    ELSE <<"{", "\"", "E", "r", "r", "o", "r", "\"", ":", "\"">> \o a.msg \o StringSuffix

\* to_vec(&Ics20Ack): externally tagged, snake_case variant names (the
\* model's messages hold no character that needs escaping)
Ics20Ack_to_vec(a) ==
    IF a.variant = "Result"
    THEN ResultPrefix \o Base64(a.data) \o StringSuffix
    ELSE ErrorPrefix \o a.msg \o StringSuffix

\* to_binary(&Ics20Ack), as a string
Ics20Ack_to_binary(a) == Text(Ics20Ack_to_vec(a))

starts_with(s, prefix) ==
    Len(s) >= Len(prefix) /\ SubSeq(s, 1, Len(prefix)) = prefix

ends_with(s, suffix) ==
    Len(s) >= Len(suffix) /\ SubSeq(s, Len(s) - Len(suffix) + 1, Len(s)) = suffix

\* the characters between a prefix and the closing quote and brace
StringBody(doc, prefix) == SubSeq(doc, Len(prefix) + 1, Len(doc) - Len(StringSuffix))

\* a JSON string body without escapes
PlainString(s) == \A i \in 1..Len(s) : s[i] \notin {"\"", "\\"}

\* from_slice::<Ics20Ack>: one key, "result" with a base64 string or "error"
\* with a string; any other shape is rejected
Ics20Ack_from_slice(doc) ==
    IF /\ starts_with(doc, ResultPrefix)
       /\ Len(doc) >= Len(ResultPrefix) + Len(StringSuffix)
       /\ ends_with(doc, StringSuffix)
       /\ PlainString(StringBody(doc, ResultPrefix))
    THEN LET data == Base64Decode(StringBody(doc, ResultPrefix))
         IN IF IsErr(data) THEN Err(ParseErr("Ics20Ack"))
            ELSE Ok([variant |-> "Result", data |-> data.val])
    ELSE IF /\ starts_with(doc, ErrorPrefix)
            /\ Len(doc) >= Len(ErrorPrefix) + Len(StringSuffix)
            /\ ends_with(doc, StringSuffix)
            /\ PlainString(StringBody(doc, ErrorPrefix))
    THEN Ok([variant |-> "Error", msg |-> StringBody(doc, ErrorPrefix)])
    ELSE Err(ParseErr("Ics20Ack"))

\* a document that decodes to neither type
Malformed == "{}"

\* every packet and acknowledgement of the model beside its serialized form
PacketJson == {<<p, Ics20Packet_to_binary(p)>> : p \in Ics20Packet}
AckJson == {<<a, Ics20Ack_to_binary(a)>> : a \in Ics20Ack}

\* from_binary::<Ics20Packet>: the packet the document serializes, if it is one
Ics20Packet_from_binary(data) ==
    IF \E c \in PacketJson : c[2] = data
    THEN Ok((CHOOSE c \in PacketJson : c[2] = data)[1])
    ELSE Err(ParseErr("Ics20Packet"))

\* from_binary::<Ics20Ack>: the acknowledgement the document serializes, if it is one
Ics20Ack_from_binary(data) ==
    IF \E c \in AckJson : c[2] = data
    THEN Ok((CHOOSE c \in AckJson : c[2] = data)[1])
    ELSE Err(ParseErr("Ics20Ack"))

\* create a serialize success message
\* faulty variant: the success path answers with the Error envelope
ack_success_as_error == Ok(Ics20Ack_to_binary([variant |-> "Error", msg |-> <<"1">>]))

ack_success == Ok(Ics20Ack_to_binary([variant |-> "Result", data |-> SuccessMarker]))

(***************************************************************************)
(* Host values handed to the entry points.                                 *)
(***************************************************************************)
LocalEndpoints == [port_id : {ContractPort}, channel_id : Channels]

\* IbcChannel
IbcChannel ==
    [endpoint : LocalEndpoints, counterparty_endpoint : RemoteEndpoints, order : Orders,
     version : Versions, counterparty_version : {None} \cup {Some(v) : v \in Versions},
     connection_id : Connections]

\* the channels the host can close: those whose handshake passed
EstablishedChannel ==
    {c \in IbcChannel : c.version = ICS20_VERSION /\ c.order = ICS20_ORDERING
                         /\ c.counterparty_version = Some(ICS20_VERSION)}

PacketData == {c[2] : c \in PacketJson} \cup {Malformed}
AckData == {c[2] : c \in AckJson} \cup {Malformed}

\* IbcPacket delivered to this chain: sent by the remote end (src), arriving at ours (dest)
InboundPacket == [data : PacketData, src : RemoteEndpoints, dest : LocalEndpoints]
\* IbcPacket this chain sent: leaving from our end (src) towards the remote one (dest)
OutboundPacket ==
    [data : PacketData, src : LocalEndpoints,
     dest : {[port_id |-> "transfer", channel_id |-> "channel-1234"]}]
\* IbcAcknowledgement
IbcAcknowledgement == [acknowledgement : AckData, original_packet : OutboundPacket]

(***************************************************************************)
(* Storage: CHANNEL_INFO : Map<&str, ChannelInfo> and                      *)
(* CHANNEL_STATE : Map<(&str, &str), ChannelState>, each a function whose  *)
(* domain is the set of keys stored.                                       *)
(***************************************************************************)
\* ChannelState::default()
ChannelState_default == [outstanding |-> 0, total_sent |-> 0]

\* Map::may_load
may_load(map, key) == IF key \in DOMAIN map THEN Some(map[key]) ELSE None

\* faulty variant: saving one key drops the others
save_dropping_others(map, key, value) == [k \in {key} |-> value]

\* Map::save
save(map, key, value) ==
    [k \in DOMAIN map \cup {key} |-> IF k = key THEN value ELSE map[k]]

\* Map::update: load, apply the action, save its output unless it failed.
\* `output` is the action applied to may_load(map, key).
update(map, key, output) ==
    IF ~IsOk(output) THEN [map |-> map, res |-> output]
    ELSE [map |-> save(map, key, output.val), res |-> output]

\* the largest value of a ledger counter
Uint128_MAX == 2^CounterBits - 1

\* faulty variant: the sum is reduced modulo 2^CounterBits
Uint128_add_wrapping(a, b) == Ok((a + b) % (Uint128_MAX + 1))

\* Uint128 += Uint128: overflow is fatal, the call is aborted
Uint128_add(a, b) == IF a + b > Uint128_MAX THEN Panic ELSE Ok(a + b)

\* Uint128 - Uint128 : StdResult<Uint128>
Uint128_sub(a, b) == IF b > a THEN Err(Underflow(a, b)) ELSE Ok(a - b)

\* the sum of total_sent over the stored ledger entries
RECURSIVE SumSent(_, _)
SumSent(map, keys) ==
    IF keys = {} THEN 0
    ELSE LET k == CHOOSE x \in keys : TRUE
         IN map[k].total_sent + SumSent(map, keys \ {k})

(***************************************************************************)
(* Amount and the value-transfer instruction.                              *)
(***************************************************************************)
Cw20Prefix == <<"c", "w", "2", "0", ":">>

\* Amount::from_parts: the "cw20:" tag selects the token-contract variant
Amount_from_parts(denom, amount) ==
    IF starts_with(denom, Cw20Prefix)
    THEN [variant |-> "Cw20",
          coin |-> [address |-> Text(SubSeq(denom, Len(Cw20Prefix) + 1, Len(denom))),
                    amount |-> amount]]
    ELSE [variant |-> "Native", coin |-> [denom |-> denom, amount |-> amount]]

\* to_binary(&Cw20HandleMsg::Transfer { recipient, amount }), Uint128 as a JSON string
Cw20Transfer_to_binary(recipient, amount) ==
    "{" \o JsonString("transfer") \o ":{" \o JsonString("recipient") \o ":"
    \o JsonString(recipient) \o "," \o JsonString("amount") \o ":"
    \o JsonString(Decimal(amount)) \o "}}"

send_amount(amount, recipient) ==
    IF amount.variant = "Native"
    THEN Ok([type |-> "BankMsg::Send", to_address |-> recipient, amount |-> <<amount.coin>>])
    ELSE Ok([type |-> "WasmMsg::Execute", contract_addr |-> amount.coin.address,
             msg |-> Cw20Transfer_to_binary(recipient, amount.coin.amount),
             send |-> <<>>])

attr(key, value) == [key |-> key, value |-> value]

\* IbcBasicResponse::default()
IbcBasicResponse_default == [messages |-> <<>>, attributes |-> <<>>]

(***************************************************************************)
(* The entry points.  Each is an operator from the storage it reads and    *)
(* its argument to the storage it leaves and the result it returns.        *)
(***************************************************************************)
\* faulty variant: the ordering is checked before the versions
enforce_order_first(channel) ==
    IF channel.order # ICS20_ORDERING
    THEN Err(OnlyOrderedChannel)
    ELSE IF channel.version # ICS20_VERSION
    THEN Err(InvalidIbcVersion(channel.version))
    ELSE IF channel.counterparty_version # None
            /\ channel.counterparty_version[1] # ICS20_VERSION
    THEN Err(InvalidIbcVersion(channel.counterparty_version[1]))
    ELSE Ok(<<>>)

\* faulty variant: the counterparty's version is not checked
enforce_own_version_only(channel) ==
    IF channel.version # ICS20_VERSION
    THEN Err(InvalidIbcVersion(channel.version))
    ELSE IF channel.order # ICS20_ORDERING
    THEN Err(OnlyOrderedChannel)
    ELSE Ok(<<>>)

enforce_order_and_version(channel) ==
    IF channel.version # ICS20_VERSION
    THEN Err(InvalidIbcVersion(channel.version))
    ELSE IF channel.counterparty_version # None
            /\ channel.counterparty_version[1] # ICS20_VERSION
    THEN Err(InvalidIbcVersion(channel.counterparty_version[1]))
    ELSE IF channel.order # ICS20_ORDERING
    THEN Err(OnlyOrderedChannel)
    ELSE Ok(<<>>)

\* enforces ordering and versioning constraints
ibc_channel_open(channel) ==
    LET checked == enforce_order_and_version(channel)
    IN IF IsErr(checked) THEN checked ELSE Ok(<<>>)

\* faulty variant: the record is saved before the channel is validated
ibc_channel_connect_save_first(infos, channel) ==
    LET checked == enforce_order_and_version(channel)
        info == [id |-> channel.endpoint.channel_id,
                 counterparty_endpoint |-> channel.counterparty_endpoint,
                 connection_id |-> channel.connection_id]
        saved == save(infos, info.id, info)
    IN IF IsErr(checked) THEN [info |-> saved, res |-> checked]
       ELSE [info |-> saved, res |-> Ok(IbcBasicResponse_default)]

\* faulty variant: the record is keyed by the counterparty's channel id
ibc_channel_connect_remote_key(infos, channel) ==
    LET checked == enforce_order_and_version(channel)
        info == [id |-> channel.endpoint.channel_id,
                 counterparty_endpoint |-> channel.counterparty_endpoint,
                 connection_id |-> channel.connection_id]
    IN IF IsErr(checked) THEN [info |-> infos, res |-> checked]
       ELSE [info |-> save(infos, channel.counterparty_endpoint.channel_id, info),
             res |-> Ok(IbcBasicResponse_default)]

\* record the channel in CHANNEL_INFO
ibc_channel_connect(infos, channel) ==
    LET checked == enforce_order_and_version(channel)
        info == [id |-> channel.endpoint.channel_id,
                 counterparty_endpoint |-> channel.counterparty_endpoint,
                 connection_id |-> channel.connection_id]
    IN IF IsErr(checked) THEN [info |-> infos, res |-> checked]
       ELSE [info |-> save(infos, info.id, info), res |-> Ok(IbcBasicResponse_default)]

\* unimplemented!()
ibc_channel_close(channel) == Panic

\* faulty variant: the subtraction is not checked
receive_action_unchecked(orig, amount) ==
    IF orig = None THEN Err(InsufficientFunds)
    ELSE Ok([orig[1] EXCEPT !.outstanding = @ - amount])

\* faulty variant: the subtraction saturates at zero
receive_action_saturating(orig, amount) ==
    IF orig = None THEN Err(InsufficientFunds)
    ELSE Ok([orig[1] EXCEPT !.outstanding = IF amount > @ THEN 0 ELSE @ - amount])

\* faulty variant: a receive also takes the amount off total_sent
receive_action_debits_total(orig, amount) ==
    IF orig = None THEN Err(InsufficientFunds)
    ELSE LET cur == orig[1]
             left == Uint128_sub(cur.outstanding, amount)
         IN IF IsErr(left) THEN Err(Std(left.err))
            ELSE Ok([outstanding |-> left.val, total_sent |-> cur.total_sent - amount])

\* faulty variant: a zero amount is refused
receive_action_refuses_zero(orig, amount) ==
    IF orig = None \/ amount = 0 THEN Err(InsufficientFunds)
    ELSE LET cur == orig[1]
             left == Uint128_sub(cur.outstanding, amount)
         IN IF IsErr(left) THEN Err(Std(left.err))
            ELSE Ok([cur EXCEPT !.outstanding = left.val])

\* faulty variant: the funds are checked but not taken off the escrow
receive_action_keeps_escrow(orig, amount) ==
    IF orig = None THEN Err(InsufficientFunds)
    ELSE LET cur == orig[1]
             left == Uint128_sub(cur.outstanding, amount)
         IN IF IsErr(left) THEN Err(Std(left.err))
            ELSE Ok(cur)

\* the closure ibc_packet_receive hands to CHANNEL_STATE.update
receive_action(orig, amount) ==
    IF orig = None THEN Err(InsufficientFunds)
    ELSE LET cur == orig[1]
             left == Uint128_sub(cur.outstanding, amount)
         IN IF IsErr(left) THEN Err(Std(left.err))
            ELSE Ok([cur EXCEPT !.outstanding = left.val])

\* the ledger key ibc_packet_receive reads and writes
receive_key(packet, msg) == <<packet.src.channel_id, msg.denom>>

\* faulty variant: the funds go to the packet's sender
receive_response_to_sender(msg, amount) ==
    LET to_send == Amount_from_parts(msg.denom, amount)
        sent == send_amount(to_send, msg.sender)
    IN IF IsErr(sent) THEN Err(Std(sent.err))
       ELSE IF IsErr(ack_success) THEN Err(Std(ack_success.err))
       ELSE Ok([acknowledgement |-> ack_success.val,
                messages |-> <<sent.val>>,
                attributes |-> <<attr("action", "receive")>>])

\* the response of a receive that found the funds
receive_response(msg, amount) ==
    LET to_send == Amount_from_parts(msg.denom, amount)
        sent == send_amount(to_send, msg.receiver)
    IN IF IsErr(sent) THEN Err(Std(sent.err))
       ELSE IF IsErr(ack_success) THEN Err(Std(ack_success.err))
       ELSE Ok([acknowledgement |-> ack_success.val,
                messages |-> <<sent.val>>,
                attributes |-> <<attr("action", "receive")>>])

\* Check to see if we have any balance here
ibc_packet_receive(state, packet) ==
    LET decoded == Ics20Packet_from_binary(packet.data)
    IN IF IsErr(decoded) THEN [state |-> state, res |-> Err(Std(decoded.err))]
       ELSE LET msg == decoded.val
                key == receive_key(packet, msg)
                amount == msg.amount
                updated == update(state, key, receive_action(may_load(state, key), amount))
            IN IF IsErr(updated.res) THEN [state |-> updated.map, res |-> updated.res]
               ELSE [state |-> updated.map, res |-> receive_response(msg, amount)]

\* faulty variant: only outstanding is credited
success_action_outstanding_only(orig, amount) ==
    LET state == IF orig = None THEN ChannelState_default ELSE orig[1]
    IN Ok([outstanding |-> state.outstanding + amount, total_sent |-> state.total_sent])

\* the closure on_packet_success hands to CHANNEL_STATE.update
success_action(orig, amount) ==
    LET state == IF orig = None THEN ChannelState_default ELSE orig[1]
        outstanding == Uint128_add(state.outstanding, amount)
        total_sent == Uint128_add(state.total_sent, amount)
    IN IF ~IsOk(outstanding) THEN outstanding
       ELSE IF ~IsOk(total_sent) THEN total_sent
       ELSE Ok([outstanding |-> outstanding.val, total_sent |-> total_sent.val])

\* update the balance stored on this (channel, denom) index
on_packet_success(state, packet) ==
    LET decoded == Ics20Packet_from_binary(packet.data)
    IN IF IsErr(decoded) THEN [state |-> state, res |-> Err(Std(decoded.err))]
       ELSE LET msg == decoded.val
                key == <<packet.src.channel_id, msg.denom>>
                amount == msg.amount
                updated == update(state, key, success_action(may_load(state, key), amount))
            IN IF updated.res = Panic
               THEN [state |-> updated.map, res |-> Panic]
               ELSE IF IsErr(updated.res)
               THEN [state |-> updated.map, res |-> Err(Std(updated.res.err))]
               ELSE [state |-> updated.map, res |-> Ok(IbcBasicResponse_default)]

\* faulty variant: the funds are returned to the packet's receiver
on_packet_failure_to_receiver(state, packet, err) ==
    LET decoded == Ics20Packet_from_binary(packet.data)
    IN IF IsErr(decoded) THEN [state |-> state, res |-> Err(Std(decoded.err))]
       ELSE LET msg == decoded.val
                amount == Amount_from_parts(msg.denom, msg.amount)
                sent == send_amount(amount, msg.receiver)
            IN IF IsErr(sent) THEN [state |-> state, res |-> Err(Std(sent.err))]
               ELSE [state |-> state,
                     res |-> Ok([messages |-> <<sent.val>>,
                                 attributes |-> <<attr("ibc_error", err)>>])]

\* return the tokens to sender
on_packet_failure(state, packet, err) ==
    LET decoded == Ics20Packet_from_binary(packet.data)
    IN IF IsErr(decoded) THEN [state |-> state, res |-> Err(Std(decoded.err))]
       ELSE LET msg == decoded.val
                amount == Amount_from_parts(msg.denom, msg.amount)
                sent == send_amount(amount, msg.sender)
            IN IF IsErr(sent) THEN [state |-> state, res |-> Err(Std(sent.err))]
               ELSE [state |-> state,
                     res |-> Ok([messages |-> <<sent.val>>,
                                 attributes |-> <<attr("ibc_error", err)>>])]

\* check if success or failure and update balance, or return funds
ibc_packet_ack(state, ack) ==
    LET decoded == Ics20Ack_from_binary(ack.acknowledgement)
    IN IF IsErr(decoded) THEN [state |-> state, res |-> Err(Std(decoded.err))]
       ELSE IF decoded.val.variant = "Result"
       THEN on_packet_success(state, ack.original_packet)
       ELSE on_packet_failure(state, ack.original_packet, Text(decoded.val.msg))

\* return fund to original sender (same as failure in ibc_packet_ack)
ibc_packet_timeout(state, packet) ==
    on_packet_failure(state, packet, "timeout")

(***************************************************************************)
(* The state machine.  The host delivers one event at a time: it calls an  *)
(* entry point, the entry point runs to its end, and the host takes the    *)
(* response (HostDispatch) before it delivers the next event.  `call` is   *)
(* the call that has returned and is not yet taken (entry point, argument, *)
(* result), and `pre` the storage as that call found it.                   *)
(***************************************************************************)
EmptyMap == [k \in {} |-> None]

Idle == [op |-> "idle", arg |-> None, res |-> Ok(None)]

Snapshot == [state |-> CHANNEL_STATE, info |-> CHANNEL_INFO]

\* the keys a handler can address
LedgerKeys ==
    (Channels \cup {e.channel_id : e \in RemoteEndpoints}) \X Denoms

\* the amount the instruction m moves
TransferAmount(m) ==
    IF m.type = "BankMsg::Send" THEN m.amount[1].amount
    ELSE CHOOSE a \in 0..MaxAmount : \E to \in Receivers \cup Senders :
             m.msg = Cw20Transfer_to_binary(to, a)

\* the history after a receive returned res: an Ok adds what its transfers
\* move to the total of the key the handler addressed
Released(history, packet, res) ==
    IF ~IsOk(res) THEN history
    ELSE LET key == receive_key(packet, Ics20Packet_from_binary(packet.data).val)
             m == res.val.messages
         IN [history EXCEPT ![key] = @ + (IF Len(m) = 0 THEN 0 ELSE TransferAmount(m[1]))]

Init ==
    /\ CHANNEL_STATE = EmptyMap
    /\ CHANNEL_INFO = EmptyMap
    /\ call = Idle
    /\ pre = [state |-> EmptyMap, info |-> EmptyMap]
    /\ released = [k \in LedgerKeys |-> 0]

\* the amount an acknowledgement credits to the ledger (0 unless it is a decodable success)
Credit(ack) ==
    LET a == Ics20Ack_from_binary(ack.acknowledgement)
        p == Ics20Packet_from_binary(ack.original_packet.data)
    IN IF IsOk(a) /\ IsOk(p) /\ a.val.variant = "Result" THEN p.val.amount ELSE 0

ChannelOpen ==
    /\ call = Idle
    /\ \E channel \in IbcChannel :
        /\ call' = [op |-> "ibc_channel_open", arg |-> channel,
                    res |-> ibc_channel_open(channel)]
        /\ pre' = Snapshot
        /\ UNCHANGED <<CHANNEL_STATE, CHANNEL_INFO, released>>

ChannelConnect ==
    /\ call = Idle
    /\ \E channel \in IbcChannel :
        LET out == ibc_channel_connect(CHANNEL_INFO, channel)
        IN /\ CHANNEL_INFO' = out.info
           /\ call' = [op |-> "ibc_channel_connect", arg |-> channel, res |-> out.res]
           /\ pre' = Snapshot
           /\ UNCHANGED <<CHANNEL_STATE, released>>

ChannelClose ==
    /\ call = Idle
    /\ \E channel \in EstablishedChannel :
        /\ call' = [op |-> "ibc_channel_close", arg |-> channel,
                    res |-> ibc_channel_close(channel)]
        /\ pre' = Snapshot
        /\ UNCHANGED <<CHANNEL_STATE, CHANNEL_INFO, released>>

PacketReceive ==
    /\ call = Idle
    /\ \E packet \in InboundPacket :
        LET out == ibc_packet_receive(CHANNEL_STATE, packet)
        IN /\ CHANNEL_STATE' = out.state
           /\ call' = [op |-> "ibc_packet_receive", arg |-> packet, res |-> out.res]
           /\ pre' = Snapshot
           /\ released' = Released(released, packet, out.res)
           /\ UNCHANGED CHANNEL_INFO

PacketAck ==
    /\ call = Idle
    /\ \E ack \in IbcAcknowledgement :
        /\ SumSent(CHANNEL_STATE, DOMAIN CHANNEL_STATE) + Credit(ack) <= MaxSent
        /\ LET out == ibc_packet_ack(CHANNEL_STATE, ack)
           IN /\ CHANNEL_STATE' = out.state
              /\ call' = [op |-> "ibc_packet_ack", arg |-> ack, res |-> out.res]
              /\ pre' = Snapshot
              /\ UNCHANGED <<CHANNEL_INFO, released>>

PacketTimeout ==
    /\ call = Idle
    /\ \E packet \in OutboundPacket :
        LET out == ibc_packet_timeout(CHANNEL_STATE, packet)
        IN /\ CHANNEL_STATE' = out.state
           /\ call' = [op |-> "ibc_packet_timeout", arg |-> packet, res |-> out.res]
           /\ pre' = Snapshot
           /\ UNCHANGED <<CHANNEL_INFO, released>>

\* the host takes the response of the call that returned
HostDispatch ==
    /\ call # Idle
    /\ call' = Idle
    /\ pre' = Snapshot
    /\ UNCHANGED <<CHANNEL_STATE, CHANNEL_INFO, released>>

\* the acknowledgements the codec is exercised on: Result over short byte
\* strings, Error over short messages and the reference message
CodecBytes == {0, 49, 128, 255}
CodecChars == {"a", " "}
MaxBytes == 3
MaxMsgLen == 2

SeqsUpTo(S, n) == UNION {[1..k -> S] : k \in 0..n}

AckInputs ==
    [variant : {"Result"}, data : SeqsUpTo(CodecBytes, MaxBytes)] \cup
    [variant : {"Error"}, msg : SeqsUpTo(CodecChars, MaxMsgLen) \cup {BadCoin}]

\* an acknowledgement is serialized
AckEncode ==
    /\ call = Idle
    /\ \E a \in AckInputs :
        call' = [op |-> "to_binary", arg |-> a, res |-> Ok(Ics20Ack_to_vec(a))]
    /\ UNCHANGED <<CHANNEL_STATE, CHANNEL_INFO, pre, released>>

\* the serialized acknowledgement is deserialized (`value` is what was serialized)
AckDecode ==
    /\ call.op = "to_binary"
    /\ call' = [op |-> "from_binary", arg |-> call.res.val,
                res |-> Ics20Ack_from_slice(call.res.val), value |-> call.arg]
    /\ UNCHANGED <<CHANNEL_STATE, CHANNEL_INFO, pre, released>>

Next ==
    \/ ChannelOpen
    \/ ChannelConnect
    \/ ChannelClose
    \/ PacketReceive
    \/ PacketAck
    \/ PacketTimeout
    \/ HostDispatch

Spec == Init /\ [][Next]_vars

\* the channel whose counters are driven to their largest value
BusyChannel == "channel-3"

\* a packet-ack on the busy channel, with no cap other than the counters' width
BusyAck ==
    /\ call = Idle
    /\ \E ack \in {a \in IbcAcknowledgement : a.original_packet.src.channel_id = BusyChannel} :
        LET out == ibc_packet_ack(CHANNEL_STATE, ack)
        IN /\ CHANNEL_STATE' = out.state
           /\ call' = [op |-> "ibc_packet_ack", arg |-> ack, res |-> out.res]
           /\ pre' = Snapshot
           /\ UNCHANGED <<CHANNEL_INFO, released>>

\* a packet-receive that draws on the busy channel's entries
BusyReceive ==
    /\ call = Idle
    /\ \E packet \in {p \in InboundPacket : p.src.channel_id = BusyChannel} :
        LET out == ibc_packet_receive(CHANNEL_STATE, packet)
        IN /\ CHANNEL_STATE' = out.state
           /\ call' = [op |-> "ibc_packet_receive", arg |-> packet, res |-> out.res]
           /\ pre' = Snapshot
           /\ released' = Released(released, packet, out.res)
           /\ UNCHANGED CHANNEL_INFO

OverflowNext ==
    \/ BusyAck
    \/ BusyReceive
    \/ HostDispatch

\* one channel's counters, driven up to the width of their type
OverflowSpec == Init /\ [][OverflowNext]_vars

CodecNext ==
    \/ AckEncode
    \/ AckDecode

\* the acknowledgement codec alone, applied to AckInputs
CodecSpec == Init /\ [][CodecNext]_vars

(***************************************************************************)
(* Observers used by the properties.                                       *)
(***************************************************************************)
\* every ledger key an event of the model can name
Outstanding(map, key) == IF key \in DOMAIN map THEN map[key].outstanding ELSE 0
TotalSent(map, key) == IF key \in DOMAIN map THEN map[key].total_sent ELSE 0

\* the value-transfer instructions a result carries
Transfers(res) == IF IsOk(res) THEN res.val.messages ELSE <<>>

\* m moves `amount` of `denom` to the address `to`
IsTransfer(m, denom, amount, to) ==
    \/ /\ m.type = "BankMsg::Send"
       /\ m.to_address = to
       /\ m.amount = <<[denom |-> denom, amount |-> amount]>>
    \/ /\ m.type = "WasmMsg::Execute"
       /\ Text(denom) = Text(Cw20Prefix) \o m.contract_addr
       /\ m.msg = Cw20Transfer_to_binary(to, amount)
       /\ m.send = <<>>

\* the last call was a packet-receive whose payload decoded to p
ReceiveOf(p) ==
    /\ call.op = "ibc_packet_receive"
    /\ <<p, call.arg.data>> \in PacketJson

\* the ledger key a receive on the packet's channel addresses
ReceivedKey(p) == <<call.arg.src.channel_id, p.denom>>

\* the escrow recorded under the key does not cover the amount
Insufficient(p) ==
    \/ ReceivedKey(p) \notin DOMAIN pre.state
    \/ pre.state[ReceivedKey(p)].outstanding < p.amount

\* the last call was a packet-ack of variant v for an original packet decoding to p
AckOf(v, p) ==
    /\ call.op = "ibc_packet_ack"
    /\ \E a \in Ics20Ack : a.variant = v /\ <<a, call.arg.acknowledgement>> \in AckJson
    /\ <<p, call.arg.original_packet.data>> \in PacketJson

\* the last call was a packet-timeout for an original packet decoding to p
TimeoutOf(p) ==
    /\ call.op = "ibc_packet_timeout"
    /\ <<p, call.arg.data>> \in PacketJson

\* the original packet of the last ack or timeout
OriginalPacket ==
    IF call.op = "ibc_packet_ack" THEN call.arg.original_packet ELSE call.arg

(***************************************************************************)
(* Properties.                                                             *)
(***************************************************************************)

\* C1: outstanding(c,d) is never negative in any reachable state, and a
\* receive whose amount exceeds the stored outstanding is not a success and
\* leaves the ledger as it was.
C1_OutstandingNeverNegative ==
    /\ \A k \in DOMAIN CHANNEL_STATE : CHANNEL_STATE[k].outstanding >= 0
    /\ \A p \in Ics20Packet :
        (ReceiveOf(p) /\ p.amount > Outstanding(pre.state, ReceivedKey(p)))
            => (~IsOk(call.res) /\ CHANNEL_STATE = pre.state)

\* a receive of more than the (positive) stored outstanding has returned
C1_Witness ==
    \E p \in Ics20Packet :
        /\ ReceiveOf(p)
        /\ ReceivedKey(p) \in DOMAIN pre.state
        /\ pre.state[ReceivedKey(p)].outstanding > 0
        /\ p.amount > pre.state[ReceivedKey(p)].outstanding

\* C2: a receive of amount A on a key whose entry exists with outstanding >= A
\* succeeds, leaves outstanding = prior - A and total_sent unchanged, and
\* carries exactly one transfer of A of the denom to the packet's receiver.
C2_ReceiveDebitsAndPays ==
    \A p \in Ics20Packet :
        (ReceiveOf(p) /\ ~Insufficient(p)) =>
            /\ IsOk(call.res)
            /\ ReceivedKey(p) \in DOMAIN CHANNEL_STATE
            /\ CHANNEL_STATE[ReceivedKey(p)].outstanding
                 = pre.state[ReceivedKey(p)].outstanding - p.amount
            /\ CHANNEL_STATE[ReceivedKey(p)].total_sent
                 = pre.state[ReceivedKey(p)].total_sent
            /\ Len(Transfers(call.res)) = 1
            /\ IsTransfer(Transfers(call.res)[1], p.denom, p.amount, p.receiver)

\* a receive of a positive amount smaller than the stored outstanding has returned
C2_Witness ==
    \E p \in Ics20Packet :
        /\ ReceiveOf(p)
        /\ ~Insufficient(p)
        /\ p.amount > 0
        /\ pre.state[ReceivedKey(p)].outstanding > p.amount

\* C3: a receive of amount A on a key whose entry is absent or holds
\* outstanding < A leaves the whole ledger (the entry, or its absence)
\* identical and carries no transfer.
C3_InsufficientReceiveChangesNothing ==
    \A p \in Ics20Packet :
        (ReceiveOf(p) /\ Insufficient(p)) =>
            /\ CHANNEL_STATE = pre.state
            /\ Transfers(call.res) = <<>>

\* a receive of more than an existing entry's outstanding has returned
C3_Witness ==
    \E p \in Ics20Packet :
        /\ ReceiveOf(p)
        /\ ReceivedKey(p) \in DOMAIN pre.state
        /\ pre.state[ReceivedKey(p)].outstanding < p.amount

\* C4: a receive fails with InsufficientFunds both when the entry is absent
\* and when its outstanding is less than the amount.
C4_InsufficientFundsInBothCases ==
    \A p \in Ics20Packet :
        (ReceiveOf(p) /\ Insufficient(p)) => call.res = Err(InsufficientFunds)

\* C5: a receive that cannot honour the packet (undecodable payload or
\* insufficient escrow) still returns Ok, with an acknowledgement of the
\* Error variant.
C5_SoftFailureAcknowledgement ==
    (/\ call.op = "ibc_packet_receive"
     /\ \/ IsErr(Ics20Packet_from_binary(call.arg.data))
        \/ \E p \in Ics20Packet : ReceiveOf(p) /\ Insufficient(p))
    => /\ IsOk(call.res)
       /\ \E a \in Ics20Ack :
            a.variant = "Error" /\ <<a, call.res.val.acknowledgement>> \in AckJson

\* C6: an ack of the Result variant for an original packet of amount A sent
\* over channel c with denom d succeeds, leaves outstanding(c,d) and
\* total_sent(c,d) each at the prior value (zero if the entry was absent)
\* plus A, stores the entry, and carries no transfer.
C6_AckSuccessCreditsBoth ==
    \A p \in Ics20Packet :
        AckOf("Result", p) =>
            LET key == <<call.arg.original_packet.src.channel_id, p.denom>>
            IN /\ IsOk(call.res)
               /\ key \in DOMAIN CHANNEL_STATE
               /\ CHANNEL_STATE[key].outstanding = Outstanding(pre.state, key) + p.amount
               /\ CHANNEL_STATE[key].total_sent = TotalSent(pre.state, key) + p.amount
               /\ Transfers(call.res) = <<>>

\* an ack success of a positive amount has created the entry of its key
C6_Witness ==
    \E p \in Ics20Packet :
        /\ AckOf("Result", p)
        /\ p.amount > 0
        /\ <<call.arg.original_packet.src.channel_id, p.denom>> \notin DOMAIN pre.state
        /\ <<call.arg.original_packet.src.channel_id, p.denom>> \in DOMAIN CHANNEL_STATE

\* C7: an ack of the Error variant and a timeout, for an original packet of
\* amount A, each carry exactly one transfer of A of the packet's denom to
\* the packet's sender and leave the whole ledger unchanged.
C7_FailureRefundsSender ==
    \A p \in Ics20Packet :
        (AckOf("Error", p) \/ TimeoutOf(p)) =>
            /\ IsOk(call.res)
            /\ Len(Transfers(call.res)) = 1
            /\ IsTransfer(Transfers(call.res)[1], p.denom, p.amount, p.sender)
            /\ CHANNEL_STATE = pre.state

\* an ack error of a positive amount has returned while the ledger held escrow
C7_Witness ==
    \E p \in Ics20Packet :
        /\ AckOf("Error", p)
        /\ p.amount > 0
        /\ \E k \in DOMAIN pre.state : pre.state[k].outstanding > 0

\* a timeout of a positive amount has returned while the ledger held escrow
C7_WitnessTimeout ==
    \E p \in Ics20Packet :
        /\ TimeoutOf(p)
        /\ p.amount > 0
        /\ \E k \in DOMAIN pre.state : pre.state[k].outstanding > 0

\* C8 (as stated): channel-open with a version other than "ics20-1" fails
\* with the version error whatever the ordering, and channel-open with the
\* channel's version "ics20-1" and an ordering other than unordered fails
\* with the ordering error.
C8_Original ==
    call.op = "ibc_channel_open" =>
        /\ call.arg.version # ICS20_VERSION
             => call.res = Err(InvalidIbcVersion(call.arg.version))
        /\ (call.arg.version = ICS20_VERSION /\ call.arg.order # ICS20_ORDERING)
             => call.res = Err(OnlyOrderedChannel)

\* C8 (amended): channel-open with a version other than "ics20-1" fails with
\* the version error whatever the ordering; channel-open with the channel's
\* version "ics20-1", the counterparty version unknown or "ics20-1", and an
\* ordering other than unordered fails with the ordering error.
C8_OpenRejection ==
    call.op = "ibc_channel_open" =>
        /\ call.arg.version # ICS20_VERSION
             => call.res = Err(InvalidIbcVersion(call.arg.version))
        /\ (/\ call.arg.version = ICS20_VERSION
            /\ call.arg.counterparty_version \in {None, Some(ICS20_VERSION)}
            /\ call.arg.order # ICS20_ORDERING)
             => call.res = Err(OnlyOrderedChannel)

\* a channel-open with a wrong version on an ordered channel has returned
C8_Witness ==
    /\ call.op = "ibc_channel_open"
    /\ call.arg.version # ICS20_VERSION
    /\ call.arg.order # ICS20_ORDERING

\* C9: no event lowers total_sent(c,d) of any key (an absent entry counting
\* as zero), no event removes an entry, and the only event that changes a
\* total_sent is a packet-ack of the Result variant.
C9_TotalSentMonotonic ==
    /\ DOMAIN pre.state \subseteq DOMAIN CHANNEL_STATE
    /\ \A k \in LedgerKeys : TotalSent(CHANNEL_STATE, k) >= TotalSent(pre.state, k)
    /\ (\E k \in LedgerKeys : TotalSent(CHANNEL_STATE, k) # TotalSent(pre.state, k))
         => \E p \in Ics20Packet : AckOf("Result", p)

\* a receive has succeeded on an entry whose total_sent is positive
C9_Witness ==
    \E p \in Ics20Packet :
        /\ ReceiveOf(p)
        /\ IsOk(call.res)
        /\ p.amount > 0
        /\ TotalSent(CHANNEL_STATE, ReceivedKey(p)) > 0

\* C10: once a ChannelInfo record is stored for a channel id, no later event
\* changes it, a channel-connect carrying the same channel id included.
C10_ChannelInfoImmutable ==
    \A c \in DOMAIN pre.info :
        c \in DOMAIN CHANNEL_INFO /\ CHANNEL_INFO[c] = pre.info[c]


\* C11: a call of any entry point that does not return Ok leaves the escrow
\* ledger and the channel registry exactly as it found them and carries no
\* transfer.
C11_FailedCallChangesNothing ==
    (call # Idle /\ ~IsOk(call.res)) =>
        /\ CHANNEL_STATE = pre.state
        /\ CHANNEL_INFO = pre.info
        /\ Transfers(call.res) = <<>>

\* a channel-connect has failed while the registry and the ledger held entries
C11_Witness ==
    /\ call.op = "ibc_channel_connect"
    /\ IsErr(call.res)
    /\ DOMAIN pre.info # {}
    /\ DOMAIN pre.state # {}

\* a packet-receive has failed while the ledger held escrow
C11_WitnessReceive ==
    /\ call.op = "ibc_packet_receive"
    /\ IsErr(call.res)
    /\ \E k \in DOMAIN pre.state : pre.state[k].outstanding > 0


\* C12: decoding the encoding of an acknowledgement yields the value that
\* was encoded, for both variants; Result of the byte "1" encodes to
\* {"result":"MQ=="} and Error("bad coin") to {"error":"bad coin"}.
C12_AckRoundTrip ==
    /\ call.op = "from_binary" => call.res = Ok(call.value)
    /\ (call.op = "to_binary" /\ call.arg = [variant |-> "Result", data |-> <<49>>])
         => Text(call.res.val) = "{\"result\":\"MQ==\"}"
    /\ (call.op = "to_binary" /\ call.arg = [variant |-> "Error", msg |-> BadCoin])
         => Text(call.res.val) = "{\"error\":\"bad coin\"}"

\* the encoding of Result("1") has been decoded
C12_Witness ==
    /\ call.op = "from_binary"
    /\ call.value = [variant |-> "Result", data |-> <<49>>]

\* the encoding of Error("bad coin") has been decoded
C12_WitnessError ==
    /\ call.op = "from_binary"
    /\ call.value = [variant |-> "Error", msg |-> BadCoin]

\* the decoder the entry points use agrees with from_slice on every document
\* they are handed
CodecAgreement ==
    /\ \A c \in AckJson : Ics20Ack_from_slice(Ics20Ack_to_vec(c[1])) = Ics20Ack_from_binary(c[2])
    /\ Ics20Ack_from_slice(<<"{", "}">>) = Ics20Ack_from_binary(Malformed)


\* the handshake calls
IsHandshake == call.op \in {"ibc_channel_open", "ibc_channel_connect"}

OwnVersionOk(channel) == channel.version = ICS20_VERSION

CounterpartyVersionOk(channel) ==
    channel.counterparty_version = None \/ channel.counterparty_version = Some(ICS20_VERSION)

OrderOk(channel) == channel.order = "Unordered"

\* the version strings of a channel that are not "ics20-1"
OffendingVersions(channel) ==
    {v \in {channel.version} : ~OwnVersionOk(channel)} \cup
    {v \in Versions : channel.counterparty_version = Some(v) /\ v # ICS20_VERSION}

\* C13: channel-open and channel-connect succeed exactly when the channel's
\* version is "ics20-1", the counterparty version is unknown or "ics20-1",
\* and the ordering is unordered; when a version mismatches, the result is
\* the invalid-version error naming a mismatching version, and when only the
\* ordering mismatches, it is the ordering error.
C13_HandshakeValidation ==
    IsHandshake =>
        LET channel == call.arg
        IN /\ IsOk(call.res) <=>
                 (OwnVersionOk(channel) /\ CounterpartyVersionOk(channel) /\ OrderOk(channel))
           /\ ~(OwnVersionOk(channel) /\ CounterpartyVersionOk(channel)) =>
                 \E v \in OffendingVersions(channel) : call.res = Err(InvalidIbcVersion(v))
           /\ (OwnVersionOk(channel) /\ CounterpartyVersionOk(channel) /\ ~OrderOk(channel)) =>
                 call.res = Err(OnlyOrderedChannel)

\* a connect whose only fault is the counterparty's version has been refused
C13_Witness ==
    /\ call.op = "ibc_channel_connect"
    /\ OwnVersionOk(call.arg) /\ OrderOk(call.arg)
    /\ call.arg.counterparty_version = Some("ics20-2")
    /\ call.res = Err(InvalidIbcVersion("ics20-2"))

\* an open with the counterparty version still unknown has passed
C13_WitnessOpen ==
    /\ call.op = "ibc_channel_open"
    /\ call.arg.counterparty_version = None
    /\ IsOk(call.res)

\* a connect that fails on the ordering alone
C13_WitnessOrder ==
    /\ call.op = "ibc_channel_connect"
    /\ call.res = Err(OnlyOrderedChannel)


\* the channel passes the handshake validation
HandshakeValid(channel) ==
    OwnVersionOk(channel) /\ CounterpartyVersionOk(channel) /\ OrderOk(channel)

\* the ChannelInfo of a channel
ChannelInfoOf(channel) ==
    [id |-> channel.endpoint.channel_id,
     counterparty_endpoint |-> channel.counterparty_endpoint,
     connection_id |-> channel.connection_id]

\* C14: channel-open writes nothing; channel-connect leaves the escrow
\* ledger alone and carries no transfer, and it writes the registry when and
\* only when the channel is valid: then exactly the entry under the local
\* channel id is written, holding that id, the counterparty endpoint and the
\* connection id.
C14_HandshakeWrites ==
    /\ call.op = "ibc_channel_open" =>
           CHANNEL_STATE = pre.state /\ CHANNEL_INFO = pre.info
    /\ call.op = "ibc_channel_connect" =>
           LET channel == call.arg
               id == channel.endpoint.channel_id
           IN /\ CHANNEL_STATE = pre.state
              /\ Transfers(call.res) = <<>>
              /\ IF HandshakeValid(channel)
                 THEN /\ DOMAIN CHANNEL_INFO = DOMAIN pre.info \cup {id}
                      /\ CHANNEL_INFO[id] = ChannelInfoOf(channel)
                      /\ \A k \in DOMAIN pre.info \ {id} : CHANNEL_INFO[k] = pre.info[k]
                 ELSE CHANNEL_INFO = pre.info

\* a valid connect of a second channel, with escrow already on the ledger
C14_Witness ==
    /\ call.op = "ibc_channel_connect"
    /\ HandshakeValid(call.arg)
    /\ DOMAIN pre.info # {}
    /\ call.arg.endpoint.channel_id \notin DOMAIN pre.info
    /\ DOMAIN pre.state # {}

\* a valid open while the registry and the ledger hold entries
C14_WitnessOpen ==
    /\ call.op = "ibc_channel_open"
    /\ IsOk(call.res)
    /\ DOMAIN pre.info # {}
    /\ DOMAIN pre.state # {}


\* the events that change the ledger: a packet-receive, or a packet-ack
\* carrying the success envelope, each with a decodable packet
LedgerEvents ==
    {[kind |-> "receive", packet |-> p, ack |-> None] :
        p \in {q \in InboundPacket : IsOk(Ics20Packet_from_binary(q.data))}} \cup
    {[kind |-> "ack", packet |-> a.original_packet, ack |-> Some(a)] :
        a \in {b \in IbcAcknowledgement :
                 /\ IsOk(Ics20Ack_from_binary(b.acknowledgement))
                 /\ Ics20Ack_from_binary(b.acknowledgement).val.variant = "Result"
                 /\ IsOk(Ics20Packet_from_binary(b.original_packet.data))}}

\* the events with the (channel, denom) each one is for
KeyedEvents ==
    {<<e, <<e.packet.src.channel_id, Ics20Packet_from_binary(e.packet.data).val.denom>>>> :
        e \in LedgerEvents}

\* the (channel, denom) an event is for
EventKey(e) == (CHOOSE k \in KeyedEvents : k[1] = e)[2]

\* the ledger an event leaves behind
LedgerAfter(state, e) ==
    IF e.kind = "receive"
    THEN ibc_packet_receive(state, e.packet).state
    ELSE ibc_packet_ack(state, e.ack[1]).state

\* the event of the last call, if it was one of LedgerEvents
LastEvent ==
    IF call.op = "ibc_packet_receive"
    THEN [kind |-> "receive", packet |-> call.arg, ack |-> None]
    ELSE [kind |-> "ack", packet |-> call.arg.original_packet, ack |-> Some(call.arg)]

\* C15: a packet-receive or ack-success for (channel, denom) leaves every
\* other ledger entry and the channel registry as they were, and from any
\* reachable ledger two such events on different keys leave the same ledger
\* in either order. (Neither handler reads the registry, so every reachable
\* ledger is met between calls while the registry is still empty; the
\* orders are compared there, once per ledger.)
C15_MutationsScopedToOneKey ==
    /\ (call.op \in {"ibc_packet_receive", "ibc_packet_ack"} /\ LastEvent \in LedgerEvents) =>
           /\ CHANNEL_INFO = pre.info
           /\ DOMAIN pre.state \subseteq DOMAIN CHANNEL_STATE
           /\ \A k \in DOMAIN CHANNEL_STATE \ {EventKey(LastEvent)} :
                  k \in DOMAIN pre.state /\ CHANNEL_STATE[k] = pre.state[k]
    /\ (call = Idle /\ CHANNEL_INFO = EmptyMap) =>
           \A k1 \in KeyedEvents :
               LET s1 == LedgerAfter(CHANNEL_STATE, k1[1])
               IN \A k2 \in KeyedEvents :
                      k1[2] # k2[2] =>
                          LedgerAfter(s1, k2[1]) =
                              LedgerAfter(LedgerAfter(CHANNEL_STATE, k2[1]), k1[1])

\* a receive has released escrow under one key while another key holds escrow
C15_Witness ==
    /\ call.op = "ibc_packet_receive"
    /\ IsOk(call.res)
    /\ LastEvent \in LedgerEvents
    /\ CHANNEL_STATE # pre.state
    /\ \E k \in DOMAIN pre.state \ {EventKey(LastEvent)} : pre.state[k].outstanding > 0

\* an ack-success has credited one key while another key holds escrow
C15_WitnessAck ==
    /\ call.op = "ibc_packet_ack"
    /\ LastEvent \in LedgerEvents
    /\ CHANNEL_STATE # pre.state
    /\ \E k \in DOMAIN pre.state \ {EventKey(LastEvent)} : pre.state[k].outstanding > 0

\* between calls, two keys hold escrow: receives on both succeed in either order
C15_WitnessOrder ==
    /\ call = Idle
    /\ CHANNEL_INFO = EmptyMap
    /\ \E k1, k2 \in DOMAIN CHANNEL_STATE :
           k1 # k2 /\ CHANNEL_STATE[k1].outstanding > 0 /\ CHANNEL_STATE[k2].outstanding > 0

\* C16 as stated: a receive of amount 0 on any (channel, denom) succeeds,
\* leaves outstanding unchanged and carries one transfer of 0 to the receiver.
C16_Original ==
    \A p \in Ics20Packet :
        (ReceiveOf(p) /\ p.amount = 0) =>
            /\ IsOk(call.res)
            /\ Outstanding(CHANNEL_STATE, ReceivedKey(p)) = Outstanding(pre.state, ReceivedKey(p))
            /\ Len(Transfers(call.res)) = 1
            /\ IsTransfer(Transfers(call.res)[1], p.denom, 0, p.receiver)

\* C16: a receive of amount 0 on a (channel, denom) that has a ledger entry
\* succeeds, leaves the ledger unchanged and carries one transfer of 0 of the
\* denom to the receiver.
C16_ZeroAmountReceive ==
    \A p \in Ics20Packet :
        (ReceiveOf(p) /\ p.amount = 0 /\ ReceivedKey(p) \in DOMAIN pre.state) =>
            /\ IsOk(call.res)
            /\ CHANNEL_STATE = pre.state
            /\ Len(Transfers(call.res)) = 1
            /\ IsTransfer(Transfers(call.res)[1], p.denom, 0, p.receiver)

\* a receive of amount 0 has returned on a key whose entry holds no escrow
C16_Witness ==
    \E p \in Ics20Packet :
        /\ ReceiveOf(p)
        /\ p.amount = 0
        /\ ReceivedKey(p) \in DOMAIN pre.state
        /\ pre.state[ReceivedKey(p)].outstanding = 0


\* C17: every packet-receive that returns Ok carries as its acknowledgement
\* the encoding of Result("1"), that is {"result":"MQ=="}: not the encoding
\* of an Error, and not an empty acknowledgement.
C17_ReceiveAcknowledgesSuccess ==
    (call.op = "ibc_packet_receive" /\ IsOk(call.res)) =>
        /\ call.res.val.acknowledgement = "{\"result\":\"MQ==\"}"
        /\ call.res.val.acknowledgement =
               Text(Ics20Ack_to_vec([variant |-> "Result", data |-> <<49>>]))
        /\ Ics20Ack_from_binary(call.res.val.acknowledgement) =
               Ok([variant |-> "Result", data |-> <<49>>])
        /\ \A a \in AckInputs :
               a.variant = "Error" =>
                   call.res.val.acknowledgement # Text(Ics20Ack_to_vec(a))
        /\ call.res.val.acknowledgement # ""

\* a receive that released a positive amount of a cw20 token has returned Ok
C17_Witness ==
    \E p \in Ics20Packet :
        /\ ReceiveOf(p)
        /\ IsOk(call.res)
        /\ p.amount > 0
        /\ starts_with(p.denom, Cw20Prefix)


\* the key an ack of the original packet p credits
AckedKey(p) == <<call.arg.original_packet.src.channel_id, p.denom>>

\* crediting p.amount would take a counter of the acked key past Uint128_MAX
WouldOverflow(p) ==
    \/ Outstanding(pre.state, AckedKey(p)) + p.amount > Uint128_MAX
    \/ TotalSent(pre.state, AckedKey(p)) + p.amount > Uint128_MAX

\* C18: the counters stay within their width and wire amounts within the
\* counters' range; an ack-success whose increment would take outstanding or
\* total_sent past the largest counter value fails the call and stores
\* nothing, in particular no value reduced modulo the width. (Widths are
\* scaled: CounterBits stands for 128.)
C18_CountersNeverWrap ==
    /\ \A k \in DOMAIN CHANNEL_STATE :
           /\ CHANNEL_STATE[k].outstanding \in 0..Uint128_MAX
           /\ CHANNEL_STATE[k].total_sent \in 0..Uint128_MAX
    /\ \A p \in Ics20Packet :
           /\ p.amount <= Uint128_MAX
           /\ (AckOf("Result", p) /\ WouldOverflow(p)) =>
                  /\ ~IsOk(call.res)
                  /\ CHANNEL_STATE = pre.state
           /\ (AckOf("Result", p) /\ ~WouldOverflow(p)) =>
                  /\ IsOk(call.res)
                  /\ TotalSent(CHANNEL_STATE, AckedKey(p))
                       = TotalSent(pre.state, AckedKey(p)) + p.amount

\* an ack-success has been refused whose amount would have wrapped total_sent
\* to a value below the stored one, while outstanding alone would have fitted
C18_Witness ==
    \E p \in Ics20Packet :
        /\ AckOf("Result", p)
        /\ p.amount > 0
        /\ TotalSent(pre.state, AckedKey(p)) + p.amount > Uint128_MAX
        /\ Outstanding(pre.state, AckedKey(p)) + p.amount <= Uint128_MAX


\* C19: from the empty ledger on, for every (channel, denom) the value
\* released by successful receives under the key equals total_sent minus
\* outstanding; so outstanding never exceeds total_sent, and the value
\* released never exceeds the value confirmed sent.
C19_Conservation ==
    /\ DOMAIN CHANNEL_STATE \subseteq LedgerKeys
    /\ \A k \in LedgerKeys :
           /\ released[k] = TotalSent(CHANNEL_STATE, k) - Outstanding(CHANNEL_STATE, k)
           /\ Outstanding(CHANNEL_STATE, k) <= TotalSent(CHANNEL_STATE, k)
           /\ released[k] <= TotalSent(CHANNEL_STATE, k)

\* under one key, part of what was confirmed sent has been released and part
\* is still in escrow
C19_Witness ==
    \E k \in DOMAIN CHANNEL_STATE :
        /\ released[k] > 0
        /\ CHANNEL_STATE[k].outstanding > 0
        /\ call.op = "ibc_packet_receive"
        /\ IsOk(call.res)


\* the entry ack-success credits for packets sent out over the local channel
\* an inbound packet arrives on (its destination end)
InboundKey(p) == <<call.arg.dest.channel_id, p.denom>>

\* C20: the entry a packet-receive draws on is the one ack-success credits
\* for the local channel the packet arrives on: the receive succeeds and
\* debits that entry exactly when it holds enough escrow, and otherwise
\* fails and changes nothing.
C20_KeyConsistency ==
    \A p \in Ics20Packet :
        ReceiveOf(p) =>
            IF Outstanding(pre.state, InboundKey(p)) >= p.amount
               /\ InboundKey(p) \in DOMAIN pre.state
            THEN /\ IsOk(call.res)
                 /\ Outstanding(CHANNEL_STATE, InboundKey(p))
                      = Outstanding(pre.state, InboundKey(p)) - p.amount
            ELSE /\ ~IsOk(call.res)
                 /\ CHANNEL_STATE = pre.state

====
